---- MODULE Spec2Model ----
(***************************************************************************)
(* A model of tools/btgatt-client.c: option parsing in main, the L2CAP LE  *)
(* ATT connector l2cap_le_att_connect, the console callback prompt_read_cb *)
(* and the way main drives the mainloop (monitor/mainloop.h).              *)
(***************************************************************************)
EXTENDS Integers, Sequences, FiniteSets, TLC

(* ------------------------------ bounds --------------------------------- *)
\* Number of options getopt_long hands to the switch before the end of options.
MaxOpts == 2
\* Number of bytes the console peer writes during one run.
MaxInput == 3

(* --------------------------- program constants ------------------------- *)
ATT_CID == 4
BT_SECURITY_LOW == 1
BT_SECURITY_MEDIUM == 2
BT_SECURITY_HIGH == 3
BDADDR_LE_PUBLIC == 1
BDADDR_LE_RANDOM == 2
UINT16_MAX == 65535
EXIT_SUCCESS == 0
EXIT_FAILURE == 1
STDIN_FILENO == 0

\* Exit status while the process is still running.
NoStatus == -1
\* Value of exitAt while the process is still running.
NotExited == 0

\* Descriptors socket() can hand out: 0, 1 and 2 are the standard streams.
SockFds == {3}

EPOLLIN == "EPOLLIN"
EPOLLRDHUP == "EPOLLRDHUP"
EPOLLHUP == "EPOLLHUP"
EPOLLERR == "EPOLLERR"

VARIABLES
    pc,             \* position of main
    exitAt,         \* source line of the return statement main left through
    exitStatus,     \* the process exit status
    nopts,          \* options processed so far
    verbose, sec, mtu, dst_type, dst_addr_given, dst_addr, dev_id, src_addr, fd,
    optSec,         \* name given by the last valid -s option ("" if none)
    optType,        \* name given by the last valid -t option ("" if none)
    optMtu,         \* the numerals given by -m options, in order
    cfgInvalid,     \* the command line carried an invalid setting
    sock,           \* l2cap_le_att_connect's local sock
    openFds,        \* sockets currently open
    calls,          \* transport system calls issued so far, in order
    connRet,        \* return values of l2cap_le_att_connect, in order
    loopState, registry, initCount, teardownCount, terminate, pending,
    kq,             \* console bytes written by the peer and not yet read
    eofPending,     \* an end-of-input mark follows the bytes of kq
    cond,           \* hang-up and error conditions raised on the console
    arrived,        \* every byte the peer wrote while the loop was running
    stdinBuf,       \* stdin's stream buffer: bytes read and not yet consumed
    stdinEof,       \* stdin's end-of-file indicator
    cbpc,           \* position of prompt_read_cb: "idle" or in getline's "read"
    line,           \* the bytes getline has gathered so far
    typed,          \* the lines handed to "Typed line", in order
    lineptr,        \* prompt_read_cb's line: "NULL" or "allocated"
    leaked          \* a callback returned with its line buffer still allocated

mainVars == <<pc, exitAt, exitStatus>>
cfgVars == <<nopts, verbose, sec, mtu, dst_type, dst_addr_given, dst_addr,
             dev_id, src_addr, optSec, optType, optMtu, cfgInvalid>>
connVars == <<sock, openFds, calls, connRet, fd>>
loopVars == <<loopState, registry, initCount, teardownCount, terminate, pending>>
consoleVars == <<kq, eofPending, cond, arrived>>
stdioVars == <<stdinBuf, stdinEof, cbpc, line, typed, lineptr, leaked>>
vars == <<mainVars, cfgVars,
                   connVars, loopVars, consoleVars, stdioVars>>

(* ------------------------- option arguments ---------------------------- *)
\* A decimal numeral, kept as sign and two 16-bit limbs: value = hi * 2^16 + lo.
Numeral(n, h, l) == [neg |-> n, hi |-> h, lo |-> l]

\* -m arguments: 0, 1, 1500, 65535, 65536, -1, 2^31 - 1, 2^32 + 1, 2^32 + 65536
MtuArgs ==
    { Numeral(FALSE, 0, 0), Numeral(FALSE, 0, 1), Numeral(FALSE, 0, 65535),
      Numeral(FALSE, 1, 0), Numeral(TRUE, 0, 1), Numeral(FALSE, 32767, 65535),
      Numeral(FALSE, 65536, 1), Numeral(FALSE, 65537, 0) }

SecArgs == {"low", "medium", "high", "none"}
TypeArgs == {"random", "public", "static"}
\* -d arguments: one that str2ba parses and one it rejects
DestArgs == {"AA:BB:CC:DD:EE:FF", "AA:BB"}
\* -i arguments: an adapter hci_devid knows and one it does not
IndexArgs == {"hci0", "hci9"}

\* The numeral is a value in 1..65535.
MtuInRange(a) == ~a.neg /\ a.hi = 0 /\ a.lo >= 1

\* A 32-bit pattern given as two limbs, read as a signed int.
Signed32(h, l) == IF h < 32768 THEN h * 65536 + l ELSE (h - 65536) * 65536 + l

\* The numeral fits an int.
FitsInt(a) == IF a.neg THEN a.hi < 32768 \/ (a.hi = 32768 /\ a.lo = 0)
                       ELSE a.hi < 32768

\* The low 32 bits of the numeral, read as a signed int.
Wrap32(a) ==
    LET h == a.hi % 65536
    IN  IF ~a.neg THEN Signed32(h, a.lo)
        ELSE IF a.lo = 0 THEN Signed32((65536 - h) % 65536, 0)
        ELSE Signed32(65535 - h, 65536 - a.lo)

\* atoi(optarg): the value when it fits an int; otherwise the behaviour is
\* undefined: (int) strtol() wraps where long is 64 bits wide and saturates
\* where long is 32 bits wide.
atoi(a) ==
    IF FitsInt(a) THEN {Wrap32(a)}
    ELSE {Wrap32(a), IF a.neg THEN -2147483647 - 1 ELSE 2147483647}

\* str2ba(optarg, &dst_addr) < 0
str2baFails(s) == s # "AA:BB:CC:DD:EE:FF"

\* hci_devid(optarg)
hci_devid(s) == IF s = "hci0" THEN 0 ELSE -1

(* ------------------------------ main ----------------------------------- *)
Init ==
    /\ pc = "getopt" /\ exitAt = NotExited /\ exitStatus = NoStatus
    /\ nopts = 0
    /\ verbose = FALSE
    /\ sec = BT_SECURITY_LOW
    /\ mtu = 0
    /\ dst_type = BDADDR_LE_PUBLIC
    /\ dst_addr_given = FALSE
    /\ dst_addr = "unset" /\ src_addr = "unset"
    /\ dev_id = -1
    /\ fd = -1
    /\ optSec = "" /\ optType = "" /\ optMtu = <<>> /\ cfgInvalid = FALSE
    /\ sock = -1 /\ openFds = {} /\ calls = <<>> /\ connRet = <<>>
    /\ loopState = "uninitialized" /\ registry = <<>> /\ initCount = 0
    /\ teardownCount = 0 /\ terminate = FALSE /\ pending = {}
    /\ kq = <<>> /\ eofPending = FALSE /\ cond = {} /\ arrived = <<>>
    /\ stdinBuf = <<>> /\ stdinEof = FALSE /\ cbpc = "idle" /\ line = <<>>
    /\ typed = <<>> /\ lineptr = "NULL" /\ leaked = FALSE

\* return <status>; at source line <line>
Return(lineno, status) ==
    /\ pc' = "exit" /\ exitAt' = lineno /\ exitStatus' = status

\* getopt_long found the next option
InGetopt == pc = "getopt" /\ nopts < MaxOpts

\* case 'h'
OptHelp ==
    /\ InGetopt
    /\ Return(184, EXIT_SUCCESS)
    /\ nopts' = nopts + 1
    /\ UNCHANGED <<verbose, sec, mtu, dst_type, dst_addr_given, dst_addr, dev_id,
                   src_addr, optSec, optType, optMtu, cfgInvalid,
                   connVars, loopVars, consoleVars, stdioVars>>

\* case 'v'
OptVerbose ==
    /\ InGetopt
    /\ verbose' = TRUE
    /\ nopts' = nopts + 1
    /\ UNCHANGED <<mainVars, sec, mtu, dst_type, dst_addr_given, dst_addr, dev_id,
                   src_addr, optSec, optType, optMtu, cfgInvalid,
                   connVars, loopVars, consoleVars, stdioVars>>

\* case 's'
OptSecurity ==
    /\ InGetopt
    /\ \E optarg \in SecArgs :
         IF optarg = "low" THEN
             sec' = BT_SECURITY_LOW /\ optSec' = optarg
             /\ UNCHANGED <<mainVars, cfgInvalid>>
         ELSE IF optarg = "medium" THEN
             sec' = BT_SECURITY_MEDIUM /\ optSec' = optarg
             /\ UNCHANGED <<mainVars, cfgInvalid>>
         ELSE IF optarg = "high" THEN
             sec' = BT_SECURITY_HIGH /\ optSec' = optarg
             /\ UNCHANGED <<mainVars, cfgInvalid>>
         ELSE
             /\ Return(197, EXIT_FAILURE)
             /\ cfgInvalid' = TRUE
             /\ UNCHANGED <<sec, optSec>>
    /\ nopts' = nopts + 1
    /\ UNCHANGED <<verbose, mtu, dst_type, dst_addr_given, dst_addr, dev_id,
                   src_addr, optType, optMtu,
                   connVars, loopVars, consoleVars, stdioVars>>

\* case 'm'
OptMtu ==
    /\ InGetopt
    /\ \E optarg \in MtuArgs : \E arg \in atoi(optarg) :
         /\ cfgInvalid' = (cfgInvalid \/ ~MtuInRange(optarg))
         /\ optMtu' = Append(optMtu, optarg)
         /\ IF arg <= 0 THEN
                Return(206, EXIT_FAILURE) /\ UNCHANGED mtu
            ELSE IF arg > UINT16_MAX THEN
                Return(211, EXIT_FAILURE) /\ UNCHANGED mtu
            ELSE
                mtu' = arg % 65536 /\ UNCHANGED mainVars
    /\ nopts' = nopts + 1
    /\ UNCHANGED <<verbose, sec, dst_type, dst_addr_given, dst_addr, dev_id,
                   src_addr, optSec, optType,
                   connVars, loopVars, consoleVars, stdioVars>>

\* case 't' with random mapped to the public address type
OptTypeAlwaysPublic ==
    /\ InGetopt
    /\ \E optarg \in TypeArgs :
         IF optarg = "random" THEN
             dst_type' = BDADDR_LE_PUBLIC /\ optType' = optarg
             /\ UNCHANGED <<mainVars, cfgInvalid>>
         ELSE IF optarg = "public" THEN
             dst_type' = BDADDR_LE_PUBLIC /\ optType' = optarg
             /\ UNCHANGED <<mainVars, cfgInvalid>>
         ELSE
             /\ Return(225, EXIT_FAILURE)
             /\ cfgInvalid' = TRUE
             /\ UNCHANGED <<dst_type, optType>>
    /\ nopts' = nopts + 1
    /\ UNCHANGED <<verbose, sec, mtu, dst_addr_given, dst_addr, dev_id,
                   src_addr, optSec, optMtu,
                   connVars, loopVars, consoleVars, stdioVars>>

\* case 't'
OptType ==
    /\ InGetopt
    /\ \E optarg \in TypeArgs :
         IF optarg = "random" THEN
             dst_type' = BDADDR_LE_RANDOM /\ optType' = optarg
             /\ UNCHANGED <<mainVars, cfgInvalid>>
         ELSE IF optarg = "public" THEN
             dst_type' = BDADDR_LE_PUBLIC /\ optType' = optarg
             /\ UNCHANGED <<mainVars, cfgInvalid>>
         ELSE
             /\ Return(225, EXIT_FAILURE)
             /\ cfgInvalid' = TRUE
             /\ UNCHANGED <<dst_type, optType>>
    /\ nopts' = nopts + 1
    /\ UNCHANGED <<verbose, sec, mtu, dst_addr_given, dst_addr, dev_id,
                   src_addr, optSec, optMtu,
                   connVars, loopVars, consoleVars, stdioVars>>

\* case 'd'
OptDest ==
    /\ InGetopt
    /\ \E optarg \in DestArgs :
         IF str2baFails(optarg) THEN
             /\ Return(232, EXIT_FAILURE)
             /\ cfgInvalid' = TRUE
             /\ UNCHANGED <<dst_addr, dst_addr_given>>
         ELSE
             /\ dst_addr' = optarg
             /\ dst_addr_given' = TRUE
             /\ UNCHANGED <<mainVars, cfgInvalid>>
    /\ nopts' = nopts + 1
    /\ UNCHANGED <<verbose, sec, mtu, dst_type, dev_id, src_addr, optSec, optType, optMtu,
                   connVars, loopVars, consoleVars, stdioVars>>

\* case 'i'
OptIndex ==
    /\ InGetopt
    /\ \E optarg \in IndexArgs :
         /\ dev_id' = hci_devid(optarg)
         /\ IF dev_id' < 0 THEN Return(242, EXIT_FAILURE)
                           ELSE UNCHANGED mainVars
    /\ nopts' = nopts + 1
    /\ UNCHANGED <<verbose, sec, mtu, dst_type, dst_addr_given, dst_addr,
                   src_addr, optSec, optType, optMtu, cfgInvalid,
                   connVars, loopVars, consoleVars, stdioVars>>

\* default: an option getopt_long does not know
OptInvalid ==
    /\ InGetopt
    /\ Return(248, EXIT_FAILURE)
    /\ nopts' = nopts + 1
    /\ UNCHANGED <<verbose, sec, mtu, dst_type, dst_addr_given, dst_addr, dev_id,
                   src_addr, optSec, optType, optMtu, cfgInvalid,
                   connVars, loopVars, consoleVars, stdioVars>>

\* getopt_long returns -1; the checks between the option loop and mainloop_init.
\* argc0: the process was started with an empty argument vector;
\* operands: argc - optind, the arguments left after the options;
\* devba_ok: hci_devba finds the adapter's address.
EndOfOptions ==
    /\ pc = "getopt"
    /\ \E argc0 \in BOOLEAN, operands \in {0, 1}, devba_ok \in BOOLEAN :
         /\ argc0 => (nopts = 0 /\ operands = 0)
         /\ cfgInvalid' = (cfgInvalid \/ ~dst_addr_given)
         /\ IF argc0 THEN
                Return(254, EXIT_SUCCESS) /\ UNCHANGED src_addr
            ELSE IF operands # 0 THEN
                Return(263, EXIT_SUCCESS) /\ UNCHANGED src_addr
            ELSE IF dev_id # -1 /\ ~devba_ok THEN
                Return(270, EXIT_FAILURE) /\ UNCHANGED src_addr
            ELSE
                /\ src_addr' = IF dev_id = -1 THEN "BDADDR_ANY" ELSE "hci0"
                /\ IF ~dst_addr_given
                     THEN Return(275, EXIT_FAILURE)
                     ELSE pc' = "mainloop_init" /\ UNCHANGED <<exitAt, exitStatus>>
    /\ UNCHANGED <<nopts, verbose, sec, mtu, dst_type, dst_addr_given, dst_addr,
                   dev_id, optSec, optType, optMtu,
                   connVars, loopVars, consoleVars, stdioVars>>

(* ------------------- the mainloop (monitor/mainloop.h) ----------------- *)
\* initialize(): allocates the readiness-notification resource
mainloop_init ==
    /\ loopState' = "initialized"
    /\ initCount' = initCount + 1
    /\ UNCHANGED <<registry, teardownCount, terminate, pending>>

\* register(descriptor, interestMask, callback): fails when the descriptor is
\* already registered or the resource allocation fails (ok = FALSE)
mainloop_add_fd(d, events, callback, ok) ==
    /\ ok => d \notin DOMAIN registry
    /\ registry' = IF ok
                     THEN (d :> [events |-> events, callback |-> callback]) @@ registry
                     ELSE registry
    /\ UNCHANGED <<loopState, initCount, teardownCount, terminate, pending>>

\* main with the call of mainloop_init left out
CallMainloopInitSkipped ==
    /\ pc = "mainloop_init"
    /\ pc' = "socket"
    /\ UNCHANGED <<exitAt, exitStatus, cfgVars, connVars, loopVars, consoleVars,
                   stdioVars>>

\* main, line 278
CallMainloopInit ==
    /\ pc = "mainloop_init"
    /\ mainloop_init
    /\ pc' = "socket"
    /\ UNCHANGED <<exitAt, exitStatus, cfgVars, connVars, consoleVars, stdioVars>>

(* ----------------------- l2cap_le_att_connect -------------------------- *)
Call(op, ok, d, addr, type, level) ==
    [op |-> op, ok |-> ok, fd |-> d, addr |-> addr,
     cid |-> IF op \in {"bind", "connect"} THEN ATT_CID ELSE 0,
     type |-> type, level |-> level]

\* a failing step that returns -1 without closing the socket
ConnectorFailsLeaks(call, closeSock) ==
    /\ calls' = Append(calls, call)
    /\ connRet' = Append(connRet, -1)
    /\ fd' = -1
    /\ Return(282, EXIT_FAILURE)
    /\ UNCHANGED <<sock, openFds>>

\* a step failed: close(sock) if it was allocated, return -1; main, line 281,
\* returns EXIT_FAILURE
ConnectorFails(call, closeSock) ==
    /\ calls' = IF closeSock
                  THEN calls \o <<call, Call("close", TRUE, sock, "", 0, 0)>>
                  ELSE Append(calls, call)
    /\ openFds' = IF closeSock THEN openFds \ {sock} ELSE openFds
    /\ connRet' = Append(connRet, -1)
    /\ fd' = -1
    /\ Return(282, EXIT_FAILURE)
    /\ UNCHANGED sock

\* sock = socket(PF_BLUETOOTH, SOCK_SEQPACKET, BTPROTO_L2CAP), lines 91-95
Socket ==
    /\ pc = "socket"
    /\ \E r \in (SockFds \ openFds) \cup {-1} :
         IF r < 0 THEN
             /\ ConnectorFails(Call("socket", FALSE, r, "", 0, 0), FALSE)
         ELSE
             /\ sock' = r
             /\ openFds' = openFds \cup {r}
             /\ calls' = Append(calls, Call("socket", TRUE, r, "", 0, 0))
             /\ pc' = "bind"
             /\ UNCHANGED <<exitAt, exitStatus, connRet, fd>>
    /\ UNCHANGED <<cfgVars, loopVars, consoleVars, stdioVars>>

\* bind whose failure is not checked
BindIgnoresFailure ==
    /\ pc = "bind"
    /\ \E ok \in BOOLEAN :
         /\ calls' = Append(calls, Call("bind", ok, sock, src_addr, 0, 0))
         /\ pc' = "setsockopt"
         /\ UNCHANGED <<exitAt, exitStatus, sock, openFds, connRet, fd>>
    /\ UNCHANGED <<cfgVars, loopVars, consoleVars, stdioVars>>

\* bind(sock, &srcaddr), lines 97-108; the source address type is 0
Bind ==
    /\ pc = "bind"
    /\ \E ok \in BOOLEAN :
         LET call == Call("bind", ok, sock, src_addr, 0, 0)
         IN  IF ~ok THEN ConnectorFails(call, TRUE)
             ELSE /\ calls' = Append(calls, call)
                  /\ pc' = "setsockopt"
                  /\ UNCHANGED <<exitAt, exitStatus, sock, openFds, connRet, fd>>
    /\ UNCHANGED <<cfgVars, loopVars, consoleVars, stdioVars>>

\* setsockopt that falls back to the next lower level when the level is rejected
SetSecurityDowngrades ==
    /\ pc = "setsockopt"
    /\ \E ok \in BOOLEAN :
         LET call == Call("setsockopt", ok, sock, "", 0, sec % 256)
             retry == Call("setsockopt", TRUE, sock, "", 0, (sec - 1) % 256)
         IN  IF ~ok /\ sec = BT_SECURITY_LOW THEN ConnectorFails(call, TRUE)
             ELSE /\ calls' = IF ok THEN Append(calls, call)
                                    ELSE calls \o <<call, retry>>
                  /\ pc' = "connect"
                  /\ UNCHANGED <<exitAt, exitStatus, sock, openFds, connRet, fd>>
    /\ UNCHANGED <<cfgVars, loopVars, consoleVars, stdioVars>>

\* setsockopt(sock, SOL_BLUETOOTH, BT_SECURITY, &btsec), lines 110-118;
\* btsec.level is a uint8_t
SetSecurity ==
    /\ pc = "setsockopt"
    /\ \E ok \in BOOLEAN :
         LET call == Call("setsockopt", ok, sock, "", 0, sec % 256)
         IN  IF ~ok THEN ConnectorFails(call, TRUE)
             ELSE /\ calls' = Append(calls, call)
                  /\ pc' = "connect"
                  /\ UNCHANGED <<exitAt, exitStatus, sock, openFds, connRet, fd>>
    /\ UNCHANGED <<cfgVars, loopVars, consoleVars, stdioVars>>

\* connect whose failure is not checked: the socket is returned all the same
ConnectIgnoresFailure ==
    /\ pc = "connect"
    /\ \E ok \in BOOLEAN :
         /\ calls' = Append(calls, Call("connect", ok, sock, dst_addr, dst_type, 0))
         /\ connRet' = Append(connRet, sock)
         /\ fd' = sock
         /\ pc' = "add_fd"
         /\ UNCHANGED <<exitAt, exitStatus, sock, openFds>>
    /\ UNCHANGED <<cfgVars, loopVars, consoleVars, stdioVars>>

\* connect that is tried a second time after a failure
ConnectRetries ==
    /\ pc = "connect"
    /\ \E ok \in BOOLEAN :
         LET call == Call("connect", ok, sock, dst_addr, dst_type, 0)
             first == \A i \in 1..Len(calls) : calls[i].op # "connect"
         IN  IF ~ok /\ first THEN
                 /\ calls' = Append(calls, call)
                 /\ UNCHANGED <<pc, exitAt, exitStatus, sock, openFds, connRet, fd>>
             ELSE IF ~ok THEN ConnectorFails(call, TRUE)
             ELSE /\ calls' = Append(calls, call)
                  /\ connRet' = Append(connRet, sock)
                  /\ fd' = sock
                  /\ pc' = "add_fd"
                  /\ UNCHANGED <<exitAt, exitStatus, sock, openFds>>
    /\ UNCHANGED <<cfgVars, loopVars, consoleVars, stdioVars>>

\* connect(sock, &dstaddr), lines 120-139; on success main, line 280, keeps the
\* socket in fd
Connect ==
    /\ pc = "connect"
    /\ \E ok \in BOOLEAN :
         LET call == Call("connect", ok, sock, dst_addr, dst_type, 0)
         IN  IF ~ok THEN ConnectorFails(call, TRUE)
             ELSE /\ calls' = Append(calls, call)
                  /\ connRet' = Append(connRet, sock)
                  /\ fd' = sock
                  /\ pc' = "add_fd"
                  /\ UNCHANGED <<exitAt, exitStatus, sock, openFds>>
    /\ UNCHANGED <<cfgVars, loopVars, consoleVars, stdioVars>>

\* main that starts the loop whether or not the console was registered
AddConsoleIgnoresFailure ==
    /\ pc = "add_fd"
    /\ \E ok \in BOOLEAN :
         mainloop_add_fd(STDIN_FILENO, {EPOLLIN, EPOLLRDHUP, EPOLLHUP, EPOLLERR},
                         "prompt_read_cb", ok)
    /\ pc' = "mainloop_run"
    /\ UNCHANGED <<exitAt, exitStatus, cfgVars, connVars, consoleVars, stdioVars>>

\* main, lines 284-291: register the console with the loop
AddConsole ==
    /\ pc = "add_fd"
    /\ \E ok \in BOOLEAN :
         /\ mainloop_add_fd(STDIN_FILENO, {EPOLLIN, EPOLLRDHUP, EPOLLHUP, EPOLLERR},
                            "prompt_read_cb", ok)
         /\ IF ~ok THEN Return(288, EXIT_FAILURE)
                   ELSE pc' = "mainloop_run" /\ UNCHANGED <<exitAt, exitStatus>>
    /\ UNCHANGED <<cfgVars, connVars, consoleVars, stdioVars>>

(* --------------------------- the console ------------------------------- *)
NL == "\n"
Bytes == {"a", NL}
\* Conditions a console descriptor can raise besides readability.
HangupConds == {{EPOLLRDHUP}, {EPOLLHUP}, {EPOLLERR}, {EPOLLRDHUP, EPOLLHUP}}

HasNL(s) == \E i \in 1..Len(s) : s[i] = NL
FirstNL(s) == CHOOSE i \in 1..Len(s) : s[i] = NL /\ \A j \in 1..(i - 1) : s[j] # NL
\* s up to and including its first newline, and what follows it
FirstLine(s) == SubSeq(s, 1, FirstNL(s))
AfterFirstLine(s) == SubSeq(s, FirstNL(s) + 1, Len(s))

\* The newline-terminated lines of a byte sequence, in order.
RECURSIVE CompleteLines(_)
CompleteLines(s) ==
    IF HasNL(s) THEN <<FirstLine(s)>> \o CompleteLines(AfterFirstLine(s)) ELSE <<>>

\* The readiness conditions of a descriptor.
Ready(d) ==
    IF d = STDIN_FILENO
      THEN (IF kq # <<>> \/ eofPending THEN {EPOLLIN} ELSE {}) \cup cond
      ELSE {}

ConsoleOpen == pc = "in_run" /\ loopState = "running"

\* The peer writes one byte.
ConsoleWrite ==
    /\ ConsoleOpen /\ ~eofPending /\ cond = {}
    /\ Len(arrived) < MaxInput
    /\ \E b \in Bytes : kq' = Append(kq, b) /\ arrived' = Append(arrived, b)
    /\ UNCHANGED <<mainVars, cfgVars, connVars, loopVars, eofPending, cond, stdioVars>>

\* The peer signals end of input in-band: one read will return 0.
ConsoleEof ==
    /\ ConsoleOpen /\ ~eofPending /\ cond = {}
    /\ eofPending' = TRUE
    /\ UNCHANGED <<mainVars, cfgVars, connVars, loopVars, kq, cond, arrived, stdioVars>>

\* The peer goes away or the descriptor fails.
ConsoleHangup ==
    /\ ConsoleOpen /\ cond = {}
    /\ \E c \in HangupConds : cond' = c
    /\ UNCHANGED <<mainVars, cfgVars, connVars, loopVars, kq, eofPending, arrived,
                   stdioVars>>

(* ------------------------- the mainloop, running ----------------------- *)
\* run() is entered
mainloop_run ==
    /\ loopState' = "running"
    /\ UNCHANGED <<registry, initCount, teardownCount, terminate, pending>>

\* stop()
mainloop_quit == terminate' = TRUE

\* main, line 293
CallMainloopRun ==
    /\ pc = "mainloop_run"
    /\ mainloop_run
    /\ pc' = "in_run"
    /\ UNCHANGED <<exitAt, exitStatus, cfgVars, connVars, consoleVars, stdioVars>>

\* run() that goes on to wait for a further pass although stop() was called
EpollWaitIgnoresStop ==
    /\ pc = "in_run" /\ cbpc = "idle" /\ pending = {}
    /\ DOMAIN registry # {}
    /\ LET ready == {d \in DOMAIN registry : Ready(d) \cap registry[d].events # {}}
       IN  /\ ready # {}
           /\ pending' = {<<d, Ready(d) \cap registry[d].events>> : d \in ready}
    /\ UNCHANGED <<mainVars, cfgVars, connVars, loopState, registry, initCount,
                   teardownCount, terminate, consoleVars, stdioVars>>

\* run(): wait for at least one ready descriptor; the ready ones make up the pass
EpollWait ==
    /\ pc = "in_run" /\ cbpc = "idle" /\ pending = {}
    /\ ~terminate /\ DOMAIN registry # {}
    /\ LET ready == {d \in DOMAIN registry : Ready(d) \cap registry[d].events # {}}
       IN  /\ ready # {}
           /\ pending' = {<<d, Ready(d) \cap registry[d].events>> : d \in ready}
    /\ UNCHANGED <<mainVars, cfgVars, connVars, loopState, registry, initCount,
                   teardownCount, terminate, consoleVars, stdioVars>>

\* run(): the callback of one ready descriptor of the pass is invoked
Dispatch(e) ==
    /\ pc = "in_run" /\ cbpc = "idle"
    /\ e \in pending
    /\ pending' = pending \ {e}
    /\ UNCHANGED <<loopState, registry, initCount, teardownCount>>

\* run(): the pass is over and stop() was called, or nothing is registered:
\* the loop shuts down and run() returns
RunReturns ==
    /\ pc = "in_run" /\ cbpc = "idle" /\ pending = {}
    /\ terminate \/ DOMAIN registry = {}
    /\ loopState' = "stopped"
    /\ registry' = <<>>
    /\ teardownCount' = teardownCount + 1
    /\ pc' = "after_run"
    /\ UNCHANGED <<exitAt, exitStatus, cfgVars, connVars, initCount, terminate,
                   pending, consoleVars, stdioVars>>

\* main, line 295
MainReturns ==
    /\ pc = "after_run"
    /\ Return(295, EXIT_SUCCESS)
    /\ UNCHANGED <<cfgVars,
                   connVars, loopVars, consoleVars, stdioVars>>

(* --------------------------- prompt_read_cb ---------------------------- *)
\* free(line), line 70
free ==
    /\ lineptr' = "NULL"
    /\ UNCHANGED leaked

\* lines 66-70: the line is printed and freed, the callback returns
TypedLine(l) ==
    /\ typed' = Append(typed, l)
    /\ line' = <<>>
    /\ free
    /\ cbpc' = "idle"

\* getline returned -1 (line 64): the callback returns, and its local line,
\* which getline allocated before it read, goes out of scope
GetlineFailed ==
    /\ line' = <<>>
    /\ leaked' = (leaked \/ lineptr = "allocated")
    /\ lineptr' = "NULL"
    /\ cbpc' = "idle"
    /\ UNCHANGED typed

\* prompt_read_cb that reads a line whenever the console is readable, and
\* looks at the hang-up events only when it is not
prompt_read_cb_ReadableFirst(d, events) ==
    IF events \cap {EPOLLRDHUP, EPOLLHUP, EPOLLERR} # {} /\ EPOLLIN \notin events THEN
        /\ mainloop_quit
        /\ UNCHANGED stdioVars
    ELSE
        /\ UNCHANGED <<terminate, stdinEof>>
        /\ IF HasNL(stdinBuf) THEN
               /\ TypedLine(FirstLine(stdinBuf))
               /\ stdinBuf' = AfterFirstLine(stdinBuf)
           ELSE
               /\ line' = stdinBuf
               /\ stdinBuf' = <<>>
               /\ lineptr' = "allocated"
               /\ cbpc' = "read"
               /\ UNCHANGED <<typed, leaked>>

\* prompt_read_cb(fd, events), lines 53-71, up to getline's first read().
\* line starts as NULL (line 56) and getline allocates the buffer before it
\* looks for input.
prompt_read_cb(d, events) ==
    IF events \cap {EPOLLRDHUP, EPOLLHUP, EPOLLERR} # {} THEN
        /\ mainloop_quit
        /\ UNCHANGED stdioVars
    ELSE
        /\ UNCHANGED <<terminate, stdinEof>>
        /\ IF HasNL(stdinBuf) THEN
               /\ TypedLine(FirstLine(stdinBuf))
               /\ stdinBuf' = AfterFirstLine(stdinBuf)
           ELSE
               /\ line' = stdinBuf
               /\ stdinBuf' = <<>>
               /\ lineptr' = "allocated"
               /\ cbpc' = "read"
               /\ UNCHANGED <<typed, leaked>>

\* The loop invokes the console callback.
PromptReadCb ==
    /\ \E e \in pending :
         /\ Dispatch(e)
         /\ registry[e[1]].callback = "prompt_read_cb"
         /\ prompt_read_cb(e[1], e[2])
    /\ UNCHANGED <<mainVars, cfgVars, connVars, consoleVars>>

\* getline's read() on the console returns, and getline goes on up to its next
\* read() or its return. With the end-of-file indicator set the stream either
\* reports end of file again without reading (C99 sticky end of file) or reads.
GetlineRead ==
    /\ pc = "in_run" /\ cbpc = "read"
    /\ \/ /\ stdinEof
          /\ IF line # <<>> THEN TypedLine(line) ELSE GetlineFailed
          /\ UNCHANGED <<kq, eofPending, stdinBuf, stdinEof>>
       \/ /\ kq = <<>> /\ (eofPending \/ cond # {})
          /\ eofPending' = FALSE
          /\ stdinEof' = TRUE
          /\ IF line # <<>> THEN TypedLine(line) ELSE GetlineFailed
          /\ UNCHANGED <<kq, stdinBuf>>
       \/ /\ kq # <<>>
          /\ \E n \in 1..Len(kq) :
               LET data == SubSeq(kq, 1, n)
               IN  /\ kq' = SubSeq(kq, n + 1, Len(kq))
                   /\ IF HasNL(data) THEN
                          /\ TypedLine(line \o FirstLine(data))
                          /\ stdinBuf' = AfterFirstLine(data)
                      ELSE
                          /\ line' = line \o data
                          /\ UNCHANGED <<stdinBuf, cbpc, typed, lineptr, leaked>>
          /\ UNCHANGED <<eofPending, stdinEof>>
    /\ UNCHANGED <<mainVars, cfgVars, connVars, loopVars, cond, arrived>>

Next ==
    \/ OptHelp \/ OptVerbose \/ OptSecurity \/ OptMtu \/ OptType \/ OptDest
    \/ OptIndex \/ OptInvalid \/ EndOfOptions
    \/ CallMainloopInit
    \/ Socket \/ Bind \/ SetSecurity \/ Connect
    \/ AddConsole \/ CallMainloopRun
    \/ EpollWait \/ PromptReadCb \/ GetlineRead \/ RunReturns \/ MainReturns
    \/ ConsoleWrite \/ ConsoleEof \/ ConsoleHangup

Spec == Init /\ [][Next]_vars
(* ------------------------------ properties ----------------------------- *)
IsStep(c) == c.op # "close"
\* The transport steps issued so far: the system calls other than close.
Steps == SelectSeq(calls, IsStep)
StepOrder == <<"socket", "bind", "setsockopt", "connect">>
NumCalls(op) == Cardinality({i \in 1..Len(calls) : calls[i].op = op})
Exited == pc = "exit"

\* C1: one call of l2cap_le_att_connect returns exactly one value, which is the
\* open socket (>= 0) if and only if socket, bind, setsockopt and connect all
\* succeeded, and -1 if and only if one of the steps it attempted failed.
ConnectorOutcome ==
    /\ Len(connRet) <= 1
    /\ Len(connRet) = 1 =>
         LET r == connRet[1]
             allOk == Len(Steps) = 4 /\ \A i \in 1..4 : Steps[i].ok
             someFailed == \E i \in 1..Len(Steps) : ~Steps[i].ok
         IN  /\ r = -1 \/ r >= 0
             /\ r >= 0 <=> allOk
             /\ r = -1 <=> someFailed
             /\ r >= 0 => r = Steps[1].fd /\ r \in openFds /\ fd = r
             /\ r = -1 => fd = -1
    /\ Len(connRet) = 0 => \A i \in 1..Len(Steps) : Steps[i].ok

\* C1 witness: the connector returned the channel after four successful steps.
ConnectorReturnedChannel ==
    /\ connRet # <<>> /\ connRet[1] >= 0
    /\ Len(Steps) = 4

\* C2: the transport steps are issued in the order socket, bind (local address,
\* CID 4), setsockopt (security level), connect (remote address and type,
\* CID 4); a step is issued only after every earlier step succeeded, so a
\* successful setsockopt precedes every connect.
StepsInOrder ==
    /\ Len(Steps) <= 4
    /\ \A i \in 1..Len(Steps) :
         /\ Steps[i].op = StepOrder[i]
         /\ i < Len(Steps) => Steps[i].ok
         /\ Steps[i].op = "bind" =>
              /\ Steps[i].cid = ATT_CID /\ Steps[i].addr = src_addr
              /\ Steps[i].fd = Steps[1].fd
         /\ Steps[i].op = "connect" =>
              /\ Steps[i].cid = ATT_CID /\ Steps[i].addr = dst_addr
              /\ Steps[i].type = dst_type /\ Steps[i].fd = Steps[1].fd
              /\ Steps[3].op = "setsockopt" /\ Steps[3].ok

\* C2 witness: connect was issued.
ConnectIssued == NumCalls("connect") = 1

\* The security level the command line selects.
SelectedLevel ==
    CASE optSec = "medium" -> BT_SECURITY_MEDIUM
      [] optSec = "high" -> BT_SECURITY_HIGH
      [] OTHER -> BT_SECURITY_LOW

\* C3: the security level is applied at most once and is the level the
\* configuration selected; when the transport rejects it the connector returns
\* -1 and connect is never issued.
SecurityNotDowngraded ==
    /\ NumCalls("setsockopt") <= 1
    /\ \A i \in 1..Len(calls) : calls[i].op = "setsockopt" =>
         /\ calls[i].level = SelectedLevel
         /\ ~calls[i].ok => /\ NumCalls("connect") = 0
                            /\ connRet = <<-1>>
                            /\ Exited /\ exitStatus = EXIT_FAILURE

\* C3 witness: the transport rejected a level above low.
SecurityRejected ==
    \E i \in 1..Len(calls) :
        calls[i].op = "setsockopt" /\ ~calls[i].ok /\ calls[i].level = BT_SECURITY_HIGH

\* C4: connect is issued at most once in a run, and only while the loop is
\* initialized and not yet running, outside any callback.
SingleConnectBeforeLoop ==
    [][ /\ NumCalls("connect")' <= 1
        /\ NumCalls("connect")' > NumCalls("connect") =>
             /\ loopState = "initialized" /\ loopState' = "initialized"
             /\ cbpc = "idle" /\ pending = {} ]_vars

\* C4 witness: the one connect failed and the process exited without another try.
ConnectFailedOnce ==
    /\ Exited /\ NumCalls("connect") = 1
    /\ \E i \in 1..Len(calls) : calls[i].op = "connect" /\ ~calls[i].ok

\* C5 (as claimed): an invalid configuration makes the process exit without a
\* socket, a connection attempt or a registration.
InvalidConfigNeverConnects ==
    cfgInvalid => Exited /\ calls = <<>> /\ DOMAIN registry = {}

\* C6 (as claimed): success status only after run returned or after -h; every
\* other exit carries failure status.
SuccessOnlyAfterRunOrHelp ==
    Exited => /\ exitStatus = EXIT_SUCCESS => loopState = "stopped" \/ exitAt = 184
              /\ exitAt \notin {184, 295} => exitStatus = EXIT_FAILURE

\* C7 (as claimed): once a console read has reported end of input and the
\* callback has returned, loop stop has been requested.
EofStopsLoop ==
    stdinEof /\ cbpc = "idle" => terminate

\* The loop is blocked in its wait: no callback runs and nothing is ready.
Quiescent ==
    /\ pc = "in_run" /\ cbpc = "idle" /\ pending = {} /\ ~terminate
    /\ \A d \in DOMAIN registry : Ready(d) \cap registry[d].events = {}

\* C8 (as claimed): when the loop has nothing left to do, every complete line that
\* arrived has been delivered, once, with its bytes, in arrival order.
LinesDelivered ==
    Quiescent => typed = CompleteLines(arrived)

\* C9 (as claimed): while the loop runs, the channel descriptor and standard
\* input are both registered.
ChannelAndConsoleRegistered ==
    loopState = "running" => {fd, STDIN_FILENO} \subseteq DOMAIN registry

LoopTransitions ==
    {<<"uninitialized", "initialized">>, <<"initialized", "running">>,
     <<"running", "stopped">>}

CanRegisterAgain(d) ==
    ENABLED (/\ mainloop_add_fd(d, {EPOLLIN}, "prompt_read_cb", TRUE)
             /\ UNCHANGED <<mainVars, cfgVars, connVars, consoleVars, stdioVars>>)
\* A failing registration of d could change the registrations.
FailedRegistrationCanModify(d) ==
    ENABLED (/\ mainloop_add_fd(d, {EPOLLIN}, "prompt_read_cb", FALSE)
             /\ registry' # registry
             /\ UNCHANGED <<mainVars, cfgVars, connVars, consoleVars, stdioVars>>)

SelectedType ==
    IF optType = "random" THEN BDADDR_LE_RANDOM ELSE BDADDR_LE_PUBLIC

\* C13: the address type and the security level main holds, and those handed
\* to the connector's setsockopt and connect steps, are the ones the command
\* line selected: public and low by default, otherwise the last valid value
\* given; a run that met another name has exited with failure at line 197 or
\* 225 and made no connector call.
ConfiguredTypeAndLevel ==
    /\ sec = SelectedLevel /\ dst_type = SelectedType
    /\ \A i \in 1..Len(calls) :
         /\ calls[i].op = "setsockopt" => calls[i].level = SelectedLevel
         /\ calls[i].op = "connect" => calls[i].type = SelectedType
    /\ exitAt \in {197, 225} =>
         Exited /\ exitStatus = EXIT_FAILURE /\ cfgInvalid /\ calls = <<>>
\* C13 witness: connect was issued with the random address type that -t selected.
ConnectWithRandomType ==
    /\ optType = "random"
    /\ \E i \in 1..Len(calls) :
         calls[i].op = "connect" /\ calls[i].type = BDADDR_LE_RANDOM

\* C14 (as claimed): the last -m value v is accepted if and only if
\* 1 <= v <= 65535; an accepted v is stored in mtu unchanged, and any other v
\* has made the process exit with failure before any connection attempt.
MtuAcceptedIffInRange ==
    optMtu # <<>> =>
        LET v == optMtu[Len(optMtu)]
        IN  /\ exitAt \in {206, 211} <=> ~MtuInRange(v)
            /\ MtuInRange(v) => mtu = v.lo
            /\ ~MtuInRange(v) =>
                 Exited /\ exitStatus = EXIT_FAILURE /\ calls = <<>>

\* C15 (as claimed): the console callback never waits for further input: while
\* it is inside its line read, the read can return at once, because input or
\* an end of input is at hand.
CallbackNeverWaits ==
    cbpc = "read" => stdinEof \/ kq # <<>> \/ eofPending \/ cond # {}

\* The step invokes a callback of the current pass.
CallbackInvoked == pending' # pending /\ pending' \subseteq pending

\* C16: an invocation of prompt_read_cb whose events contain peer-closed,
\* hang-up or error requests loop stop and returns with the console input, the
\* stream buffer and the delivered lines untouched, readable or not; an
\* invocation with none of the three never requests loop stop, neither when it
\* is invoked nor while it reads.
HangupStopsWithoutReading ==
    [][/\ CallbackInvoked =>
            \A e \in pending \ pending' :
                IF e[2] \cap {EPOLLRDHUP, EPOLLHUP, EPOLLERR} # {}
                  THEN /\ terminate' /\ cbpc' = "idle"
                       /\ kq' = kq /\ eofPending' = eofPending
                       /\ stdinBuf' = stdinBuf /\ stdinEof' = stdinEof
                       /\ line' = line /\ typed' = typed
                  ELSE terminate' = terminate
       /\ cbpc = "read" => terminate' = terminate
       /\ terminate' # terminate => CallbackInvoked]_vars
\* C16 witness: the callback was invoked with readable and a hang-up event
\* together and has returned with stop requested and the input unread.
HangupWithInputUnread ==
    /\ pc = "in_run" /\ cbpc = "idle" /\ pending = {}
    /\ terminate /\ kq # <<>> /\ typed = <<>>
    /\ EPOLLIN \in registry[STDIN_FILENO].events

SocketAllocated == \E i \in 1..Len(calls) : calls[i].op = "socket" /\ calls[i].ok

\* C17: l2cap_le_att_connect leaks no descriptor. Until it returns it closes
\* nothing; when it returns -1 after the socket was allocated, the socket was
\* closed exactly once, as the last thing before the return; when the
\* allocation itself failed nothing was closed; when it returns the socket,
\* the socket is open and was never closed.
ConnectorLeaksNothing ==
    /\ connRet = <<>> =>
         /\ NumCalls("close") = 0
         /\ SocketAllocated => sock \in openFds
    /\ connRet # <<>> =>
         IF connRet[1] = -1 THEN
             IF SocketAllocated
               THEN /\ NumCalls("close") = 1
                    /\ calls[Len(calls)].op = "close"
                    /\ calls[Len(calls)].fd = sock
                    /\ sock \notin openFds
               ELSE NumCalls("close") = 0 /\ openFds \cap SockFds = {}
         ELSE /\ NumCalls("close") = 0
              /\ connRet[1] = sock /\ sock \in openFds
\* C17 witness: setsockopt failed on an allocated socket, which was closed
\* before the connector returned -1.
SocketClosedOnFailure ==
    /\ connRet = <<-1>> /\ Len(calls) = 4
    /\ calls[3].op = "setsockopt" /\ ~calls[3].ok
    /\ calls[4].op = "close" /\ calls[4].fd = calls[1].fd

\* C18 (as claimed): when the process has exited after a successful connect,
\* the channel descriptor was closed exactly once and is no longer open.
ChannelClosedAtExit ==
    Exited /\ connRet # <<>> /\ connRet[1] >= 0 =>
        /\ Cardinality({i \in 1..Len(calls) :
                calls[i].op = "close" /\ calls[i].fd = fd}) = 1
        /\ fd \notin openFds

\* C19 (as claimed): every line buffer the line read allocated has been freed
\* by the time the callback returns, also when the read reported failure or
\* end of input; outside the callback no buffer is held.
LineBufferReleased ==
    /\ ~leaked
    /\ cbpc = "idle" => lineptr = "NULL"
====
